---- MODULE Spec2Model ----
(***************************************************************************)
(* Model of the background task processor of                               *)
(* app/services/core/background_task_processor.py                          *)
(* (class BackgroundTaskProcessor): the task records kept under            *)
(* background_task_results:<task_id>, the execution routines               *)
(* _execute_async_task / _execute_sync_task, cancel_task and               *)
(* cleanup_old_tasks.                                                      *)
(*                                                                         *)
(* Granularity.  Every await on the store (redis get / set / publish, the  *)
(* AsyncDict / AsyncSet calls, the Lua script) is one step: the step is    *)
(* the store command taking effect, preceded by the coroutine's own code   *)
(* since its previous await.  Coroutines interleave only at these points.  *)
(* task.cancel() makes the target's next step raise CancelledError at the  *)
(* await it is suspended on; since nothing else of the target runs in      *)
(* between, the raise is applied in the step that calls cancel().          *)
(* The variable out holds what the step just taken sent out: the message   *)
(* it published (pub/sub keeps no message) and the value it returned to    *)
(* the caller of cancel_task or cleanup_old_tasks, and the error_msg with   *)
(* which an "except Exception" handler of a routine returned.              *)
(***************************************************************************)
EXTENDS Integers, FiniteSets, Sequences, TLC

\* ------------------------------------------------------------------ bounds
\* BackgroundTaskProcessor(max_workers=...)
MaxWorkers == 1
\* the clock runs from 0 to MaxTime
MaxTime == 1

\* the add_task calls of a run, each with its execution unit
Units == {1, 2}
\* the task ids of a run; they are interchangeable, so the first call uses "a"
TaskIds == {"a", "b"}
FirstId == "a"
\* the max_age arguments given to cleanup_old_tasks, in clock ticks (a negative
\* timedelta puts the cutoff after now)
MaxAges == {-1, 0, 1}
\* what a task body returns: a mapping that holds a tuple, a plain string
ReturnValues == {"mapping_of_tuple", "text"}
\* str(e) of what a task body raises
ErrorMessages == {"boom", "Event loop is closed"}

\* ------------------------------------------------------------- task record
Null == "null"
NoTime == -1

PENDING == "pending"
RUNNING == "running"
COMPLETED == "completed"
FAILED == "failed"
CANCELLED == "cancelled"

\* the key is absent from the store
NoRec == [status |-> "absent", completed_at |-> NoTime, result |-> Null, error |-> Null]

\* add_task: the initial task_data
\* faulty variant of InitialRecord (tasks start as pending): C13 detects it
InitialRecord_Pending == [status |-> PENDING, completed_at |-> NoTime, result |-> Null,
                          error |-> Null]

InitialRecord == [status |-> RUNNING, completed_at |-> NoTime, result |-> Null, error |-> Null]

\* _update_task_data: "if status in [COMPLETED, FAILED, CANCELLED]"
TerminalStatuses == {COMPLETED, FAILED, CANCELLED}

\* cancel_task: "if task_data["status"] not in [PENDING, RUNNING]: return False"
\* faulty variant of CancellableStatuses (a completed task can be cancelled): C6 detects it
CancellableStatuses_WithCompleted == {PENDING, RUNNING, COMPLETED}

CancellableStatuses == {PENDING, RUNNING}

VARIABLES
    rec,        \* the store: task id -> record (NoRec: no key)
    now,        \* datetime.now(UTC)
    sem,        \* self._semaphore: free slots
    unit,       \* the execution units, one per add_task call
    tasks,      \* self._tasks: task id -> unit (0: no handle)
    canc,       \* the caller of cancel_task
    out,        \* what the step just taken published and returned
    cm,         \* the AsyncConnectionManager and the callers of its execute
    lru,        \* the store's keys of one LRU cache and the handles on it
    queue,      \* the store's list of one AsyncQueue and its caller
    dict,       \* the store's keys of one AsyncDict, its lock and its callers
    mon,        \* one _monitor_task call of the websocket handler
    legacy,     \* the pending-policy processor of app/services/background_task_processor.py
    registry,   \* the ConnectionManager of the websocket handlers
    refs        \* self._background_tasks and self._task_to_id, and the done-callbacks

vars == <<rec, now, sem, unit, tasks, canc, out, cm, lru, queue, dict, mon, legacy, registry, refs>>

\* ------------------------------------------------------------ notifications
NoData == <<>>
NoMsg == [task_id |-> Null, status |-> Null, data |-> NoData]
NoCount == -1

\* a step that publishes nothing and returns nothing to a caller
\* fault: the operation in which a command of the store raised during the step;
\* raised: the exception the step raised to the caller of the operation
Quiet == [pub |-> NoMsg, cancel_id |-> Null, cancel_ret |-> Null, cleaned |-> NoCount,
          cutoff |-> NoTime, caught |-> NoData, fault |-> Null, raised |-> Null]

\* str(e) of the RedisError a command raises when the store cannot be reached
StoreError == "Connection refused"
\* the operations of the processor that callers await
CallerOperations == {"add_task", "get_task_result", "cancel_task", "cleanup_old_tasks"}

\* _publish_task_update: the message (its timestamp is left out)
Message(task_id, status, data) == [task_id |-> task_id, status |-> status, data |-> data]

\* --------------------------------------------------------- execution units
\* sync: the callable is synchronous and still to be handed to the thread pool
\* (line 173 reads it; nothing reads it once the body has started or the unit
\* was cancelled before it, and it is then FALSE);
\* apc: where add_task is; ph, st: where the execution routine is;
\* loc: task_data read by _update_task_data; val: the serialized result
\* (serialized_result) or the error (error_msg) of the routine;
\* thread: the body of a sync task is running in the thread pool.
IdleUnit == [tid |-> Null, sync |-> FALSE, apc |-> "idle", ph |-> "idle", st |-> "-",
             loc |-> NoRec, val |-> Null, thread |-> FALSE]

\* the phases of a routine that are one call of _update_task_data
UpdatePhases == {"running", "result", "completed", "error", "failed", "cancelled"}

\* the status argument of the _update_task_data call of each phase
PhaseStatus(ph) ==
    CASE ph = "running" -> RUNNING
      [] ph \in {"result", "completed"} -> COMPLETED
      [] ph \in {"error", "failed"} -> FAILED
      [] ph = "cancelled" -> CANCELLED

\* _store_task_result / _store_task_error: additional_data and publish_data
PhaseData(ph, val) ==
    CASE ph = "result" -> <<"result", val>>
      [] ph = "error" -> <<"error", val>>
      [] OTHER -> NoData

\* faulty variant of UpdatedRecord (the new status is not stored): C5 detects it
UpdatedRecord_StatusKept(task_data, status, additional_data, t) ==
    [task_data EXCEPT !.completed_at = IF status \in TerminalStatuses THEN t ELSE @]

\* _update_task_data, lines 283-297: task_data.update(update_data)
UpdatedRecord(task_data, status, additional_data, t) ==
    [status |-> status,
     completed_at |-> IF status \in TerminalStatuses THEN t ELSE task_data.completed_at,
     result |-> IF additional_data # NoData /\ additional_data[1] = "result"
                THEN additional_data[2] ELSE task_data.result,
     error |-> IF additional_data # NoData /\ additional_data[1] = "error"
               THEN additional_data[2] ELSE task_data.error]

\* _serialize_result: json.loads(safe_json_dumps(result)); safe_json_dumps returns
\* a str unchanged, so json.loads raises on a plain string
SerializeRaises(v) == v = "text"
SerializeResult(v) == IF v = "mapping_of_tuple" THEN "mapping_of_list" ELSE v
JsonDecodeError == "Expecting value"

\* the handlers' test: "Event loop is closed" in error_msg
LoopClosed(msg) == msg = "Event loop is closed"

\* where a routine goes after the _update_task_data call of phase ph
AfterUpdate(u, ph) ==
    CASE ph = "running" -> [unit[u] EXCEPT !.ph = "body", !.st = "-", !.loc = NoRec,
                                              !.thread = unit[u].sync, !.sync = FALSE]
      [] ph = "result" -> [unit[u] EXCEPT !.ph = "completed", !.st = "get", !.loc = NoRec,
                                             !.val = Null]
      [] ph = "completed" -> [unit[u] EXCEPT !.ph = "ret_try", !.st = "-", !.loc = NoRec]
      [] ph = "error" -> [unit[u] EXCEPT !.ph = "failed", !.st = "get", !.loc = NoRec]
      [] ph \in {"failed", "cancelled"} -> [unit[u] EXCEPT !.ph = "ret", !.st = "-",
                                                              !.loc = NoRec]

\* phases inside the try block: CancelledError is caught by
\* "except asyncio.CancelledError" (lines 213, 246)
InTry(ph) == ph \in {"running", "body", "result", "completed", "ret_try"}

\* phases inside an except handler: CancelledError leaves the routine
InHandler(ph) == ph \in {"error", "failed", "cancelled", "ret"}

\* task.cancel() on unit u: the unit after CancelledError is raised in it
CancelledUnit(u) ==
    LET x == unit[u] IN
    IF x.ph = "new" THEN [x EXCEPT !.ph = "done", !.sync = FALSE]
    ELSE IF InTry(x.ph) THEN [x EXCEPT !.ph = "cancelled", !.st = "get", !.loc = NoRec,
                                      !.val = Null, !.sync = FALSE]
    ELSE IF InHandler(x.ph) THEN [x EXCEPT !.ph = "done", !.st = "-", !.loc = NoRec,
                                          !.val = Null]
    ELSE x

\* the caller of cancel_task between calls
IdleCaller == [pc |-> "idle", tid |-> Null, unit |-> 0, loc |-> NoRec]

\* task.cancel() that leaves the slot of a routine it ends taken
SemAfterCancel_Kept(u) == sem

\* task.cancel() that takes a slot for a routine still waiting for one: C36 detects it
SemAfterCancel_WaiterTakesSlot(u) ==
    IF unit[u].ph = "new" THEN sem - 1
    ELSE IF InHandler(unit[u].ph) THEN sem + 1 ELSE sem

\* the semaphore after task.cancel() on unit u: "async with" releases on the way out
SemAfterCancel(u) == IF InHandler(unit[u].ph) THEN sem + 1 ELSE sem

\* ------------------------------------------------------ connection manager
\* app/utils/async_redis_utils/connection.py, class AsyncConnectionManager
\* AsyncConnectionManager(circuit_breaker_threshold=...)
CircuitBreakerThreshold == 2
\* AsyncConnectionManager(circuit_breaker_timeout=...), in clock ticks
CircuitBreakerTimeout == 1
\* @backoff.on_exception(..., max_tries=3)
MaxTries == 3
\* __init__ line 55: retry_max_attempts: int = 3
RetryDefault == 3
\* the values of retry_max_attempts given at construction
RetryMaxAttempts == 1 .. (MaxTries + 1)
\* the coroutines that call execute
Callers == {1, 2}
\* how the Redis command of an attempt ends: it returns; it raises a
\* connection-level exception (redis ConnectionError, TimeoutError: "RedisError");
\* the store rejects the command (redis ResponseError, as for a wrong number of
\* arguments or a key of the wrong type); it raises an exception that is no
\* RedisError (AttributeError of getattr for an unknown name, TypeError)
StoreReplies == {"ok", "RedisError", "ResponseError", "TypeError"}
\* line 155: except (RedisError, ConnectionError, AsyncCircuitBreakerError);
\* ResponseError is a subclass of RedisError
CaughtReplies == {"RedisError", "ResponseError"}
\* the replies that are errors of the command itself, not of the connection
LogicalErrors == {"ResponseError", "TypeError"}

\* line 148: raise RedisError("Circuit breaker is open")
CircuitOpenError == "RedisError: Circuit breaker is open"
\* line 158: raise AsyncCircuitBreakerError("Circuit breaker is open")
CommandFailedError == "AsyncCircuitBreakerError: Circuit breaker is open"
\* lines 122-125: the exceptions that backoff retries
Retried == {CircuitOpenError, CommandFailedError}

\* a caller: pc is "idle" (no call), "store" (its command is at the store) or
\* "backoff" (between two attempts); tries counts the attempts of the call;
\* did tells how its last attempt went
IdleCall == [pc |-> "idle", tries |-> 0, did |-> Null]

\* lines 109-113; last_failure is the time of the last increment of
\* _failure_count (the class keeps no such time)
InitCm == [failure_count |-> 0, last_failure |-> NoTime, call |-> [c \in Callers |-> IdleCall],
           retry_max_attempts |-> RetryDefault]

\* faulty variant of CircuitOpen (open only above the threshold): C18 detects it
CircuitOpen_AboveThreshold == cm.failure_count > CircuitBreakerThreshold

\* line 146: the circuit breaker is open
CircuitOpen == cm.failure_count >= CircuitBreakerThreshold

\* backoff: an attempt that raised err is followed by another attempt unless
\* max_tries attempts were made
AfterRaise(c, tries, err) ==
    IF err \in Retried /\ tries < MaxTries
    THEN [pc |-> "backoff", tries |-> tries, did |-> err]
    ELSE [pc |-> "idle", tries |-> 0, did |-> err]

\* ---------------------------------------------------------------- LRU cache
\* the largest capacity a cache is constructed with
Capacity == 2
\* the capacity argument of AsyncLRUCache(key, capacity)
RequestedCapacities == 0 .. Capacity
\* self.capacity = max(1, capacity)
capacity_of(requested) == IF requested < 1 THEN 1 ELSE requested
\* the fields put into the cache: one more than fits
Fields == 1 .. (Capacity + 1)
Values == {"v", "w"}
\* AsyncLRUCache objects constructed with the same key: each has its own
\* self._lock, so each runs one operation at a time
Handles == {1, 2}
\* the handle of a caller that uses the cache alone
FirstHandle == 1

\* lru_field before RPOP has answered, field when no operation runs
NoField == 0
\* llen: results[-1] of put's pipeline
IdleHandle == [pc |-> "idle", field |-> NoField, lru_field |-> NoField, data |-> Null,
               llen |-> NoCount]
NoRead == [op |-> "none", key |-> NoField, val |-> Null, n |-> NoCount, ok |-> FALSE]

\* capacity: self.capacity of the handles;
\* hash: the key cache_key (field -> serialized value, Null: no field);
\* order: the list cache_key:order, head first;
\* read: what the operation just ended returned (val: get and peek, n: size,
\* ok: put, remove and clear) and, for put, the LLEN it got (n)
InitLru(requested) ==
    [capacity |-> capacity_of(requested),
     hash     |-> [f \in Fields |-> Null],
     order    |-> <<>>,
     h        |-> [i \in Handles |-> IdleHandle],
     read     |-> NoRead]

\* HLEN
hlen == Cardinality({f \in Fields : lru.hash[f] # Null})

\* LREM key 0 field
lrem(order, field) == SelectSeq(order, LAMBDA e : e # field)

\* LPUSH key field at the tail instead of the head
lpush_AtTail(order, field) == order \o <<field>>

\* LPUSH key field
lpush(order, field) == <<field>> \o order

\* RPOP on a list that is not empty, taking the head instead
rpop_Head(order) == [popped |-> order[1], rest |-> SubSeq(order, 2, Len(order))]

\* RPOP on a list that is not empty
rpop(order) == [popped |-> order[Len(order)], rest |-> SubSeq(order, 1, Len(order) - 1)]

RECURSIVE Reversed(_)
Reversed(order) ==
    IF order = <<>> THEN <<>> ELSE Reversed(Tail(order)) \o <<Head(order)>>

\* get_lru_order: least recently used first
get_lru_order == Reversed(lru.order)

\* -------------------------------------------------------------------- Queue
\* the caller pushes the items 1, 2, ... in this order, at most MaxPushes
MaxPushes == 6
\* pop and peek on an empty list
NoItem == 0
NoAnswer == [op |-> "none", item |-> NoItem, n |-> NoCount, ok |-> FALSE]

\* list: the store's list self.key, head first; pushed: how many items the
\* caller has pushed; removed: how many of them pop and clear have taken out;
\* ret: what the operation just ended returned
InitQueue == [list |-> <<>>, pushed |-> 0, removed |-> 0, ret |-> NoAnswer]

\* RPUSH key item
rpush(list, item) == list \o <<item>>

\* LPOP key, taking the tail instead
lpop_Tail(list) ==
    IF list = <<>> THEN [popped |-> NoItem, rest |-> list]
    ELSE [popped |-> list[Len(list)], rest |-> SubSeq(list, 1, Len(list) - 1)]

\* LPOP key
lpop(list) ==
    IF list = <<>> THEN [popped |-> NoItem, rest |-> list]
    ELSE [popped |-> Head(list), rest |-> Tail(list)]

\* LINDEX key 0
lindex0(list) == IF list = <<>> THEN NoItem ELSE Head(list)

\* --------------------------------------------------------------------- Dict
DictKeys == {"p", "q"}
DictCallers == {1, 2}
\* the operations that issue one command under the lock
SimpleOps == {"set", "get", "delete", "exists", "keys"}
\* the operations that call other operations of the same AsyncDict under the lock
CompositeOps == {"values", "items", "clear", "size"}
DictOps == SimpleOps \cup CompositeOps

\* one activation of an operation: key is its argument (Null: none), todo the
\* keys its loop has still to visit, listed says whether self.keys() has returned
Frame(op, key) == [op |-> op, key |-> key, todo |-> <<>>, listed |-> FALSE]
IdleDictCall == [pc |-> "idle", stack |-> <<>>]

\* kv: the store's keys of the dictionary (Null: no key); locked: self._lock;
\* call: the coroutines using the dictionary
InitDict == [kv     |-> [k \in DictKeys |-> Null],
             locked |-> FALSE,
             call   |-> [c \in DictCallers |-> IdleDictCall]]

\* KEYS pattern: the keys the dictionary holds, as a list
RECURSIVE ListOf(_)
ListOf(keys) ==
    IF keys = {} THEN <<>>
    ELSE LET k == CHOOSE x \in keys : TRUE IN <<k>> \o ListOf(keys \ {k})

\* async with self._lock, entering: taken at once when free, else the caller
\* waits for it
Enter(d, c, frame) ==
    [d EXCEPT !.locked = TRUE,
              !.call[c] = [pc    |-> IF d.locked THEN "wait" ELSE "run",
                           stack |-> <<frame>> \o d.call[c].stack]]

\* the command of a simple operation
AfterCommand(kv, frame) ==
    CASE frame.op = "set"    -> [kv EXCEPT ![frame.key] = "v"]
      [] frame.op = "delete" -> [kv EXCEPT ![frame.key] = Null]
      [] OTHER               -> kv

\* an operation returns to the operation that called it
Resume(parent, frame, kv) ==
    IF frame.op = "keys"
    THEN [parent EXCEPT !.todo = ListOf({k \in DictKeys : kv[k] # Null}),
                        !.listed = TRUE]
    ELSE [parent EXCEPT !.todo = Tail(@)]

\* a simple operation runs its command, leaves the lock and returns
Leave(d, c) ==
    LET stack == d.call[c].stack
        frame == Head(stack)
        kv == AfterCommand(d.kv, frame)
    IN [d EXCEPT !.kv = kv,
                 !.locked = FALSE,
                 !.call[c] = IF Len(stack) = 1 THEN IdleDictCall
                             ELSE [pc    |-> "run",
                                   stack |-> <<Resume(stack[2], frame, kv)>>
                                             \o SubSeq(stack, 3, Len(stack))]]

\* ------------------------------------------------------------ task monitor
\* websocket_handler.py, _monitor_task: pc is where the call is, inbox the
\* statuses of the messages its subscription has received and not yet read,
\* sent the broadcasts it has made
IdleMonitor == [pc |-> "idle", task_id |-> Null, inbox |-> <<>>, sent |-> <<>>]

\* _handle_task_update line 340: task_data.get("task_id", "") of a record,
\* and the record (add_task lines 158-165) has no task_id field
RecordTaskId == ""

\* the "type" of the broadcast of each terminal status (lines 342-366, 424-447)
BroadcastType(status) ==
    CASE status = COMPLETED -> "task_completed"
      [] status = FAILED -> "task_failed"
      [] status = CANCELLED -> "task_cancelled"

\* manager.broadcast_to_user: the message, its type and its task_id
Broadcast(status, task_id) == [type |-> BroadcastType(status), task_id |-> task_id]

\* redis publish on the task's channel: a subscription of that channel gets msg
Delivered(m, msg) ==
    IF m.pc \in {"read", "wait"} /\ msg.task_id = m.task_id
    THEN [m EXCEPT !.inbox = Append(@, msg.status)]
    ELSE m

\* ------------------------------------------- the pending-policy processor
\* app/services/background_task_processor.py: its store (self._task_results) is
\* synchronous, so each of its methods runs to its next await in one step
\* add_task lines 82-88: the initial task_data
LegacyInitialRecord == [status |-> PENDING, completed_at |-> NoTime, result |-> Null,
                        error |-> Null]

\* _serialize_result lines 61-65: json.loads(json.dumps(result, default=...))
LegacySerializeResult(v) == IF v = "mapping_of_tuple" THEN "mapping_of_list" ELSE v

\* an execution unit of the pending-policy processor
IdleLegacyUnit == [tid |-> Null, ph |-> "idle"]

\* what the last call of cancel_task or cleanup_old_tasks returned
NoLegacyReturn == [cancel_id |-> Null, cancel_ret |-> Null, cleaned |-> NoCount]

\* __init__ lines 41-55
InitLegacy == [rec |-> [t \in TaskIds |-> NoRec],
               unit |-> [u \in Units |-> IdleLegacyUnit],
               sem |-> MaxWorkers,
               ret |-> NoLegacyReturn]

\* _update_task_status lines 128-133
LegacyStatusWritten(task_data, status) ==
    IF task_data = NoRec THEN NoRec ELSE [task_data EXCEPT !.status = status]

\* _store_task_result lines 135-146
LegacyResultWritten(task_data, result, t) ==
    IF task_data = NoRec THEN NoRec
    ELSE [task_data EXCEPT !.status = COMPLETED, !.result = LegacySerializeResult(result),
                           !.completed_at = t]

\* _store_task_error lines 148-159
LegacyErrorWritten(task_data, error, t) ==
    IF task_data = NoRec THEN NoRec
    ELSE [task_data EXCEPT !.status = FAILED, !.error = error, !.completed_at = t]

\* cleanup_old_tasks lines 196-205: the test that deletes a record
LegacyShouldDelete(task_data, max_age) ==
    /\ task_data # NoRec
    /\ task_data.completed_at # NoTime
    /\ task_data.status \in {COMPLETED, FAILED, CANCELLED}
    /\ now - task_data.completed_at > max_age

\* ------------------------------------------------ websocket ConnectionManager
\* app/api/handlers/websocket/connection_manager.py
\* the user ids and the WebSocket objects of a run
Users == {1, 2}
Sockets == {1, 2, 3}
\* no user: the websocket has not been accepted
NoUser == 0
\* disconnect calls made for one websocket: handle_failed_connection after a
\* failed send, and the close of the connection
MaxDisconnects == 2

\* __init__ lines 27-31; connection_metadata holds each user's connection_count
\* (0: no metadata), connections[u] = {} stands for no key u in self._connections,
\* owner is the user_id each websocket's handler passes to connect and disconnect,
\* disconnects counts the disconnect calls made for each websocket
InitRegistry == [active_users |-> {},
                 connection_metadata |-> [u \in Users |-> 0],
                 connections |-> [u \in Users |-> {}],
                 last_heartbeat |-> {},
                 owner |-> [w \in Sockets |-> NoUser],
                 disconnects |-> [w \in Sockets |-> 0]]

\* ------------------------------------------------------- task references
\* SerializableTask.__init__: self.task_id = str(uuid.uuid4()): every wrapper
\* made around a task has an id of its own; wrappers are equal, and serialize
\* equally (to_dict), when their ids are equal
Wrappers == 1 .. (2 * Cardinality(Units))
\* add_task line 178: the wrapper made when the task of unit u is created
StoredWrapper(u) == u
\* _remove_task_from_set line 109: the wrapper made by the done-callback of unit u
CallbackWrapper(u) == Cardinality(Units) + u

\* __init__ lines 93-97: no reference is stored, no done-callback has run
InitRefs == [background_tasks |-> {},
             task_to_id |-> [w \in Wrappers |-> Null],
             called |-> {}]

\* everything but the connection manager and the LRU cache
InitRest ==
    /\ rec = [t \in TaskIds |-> NoRec]
    /\ now = 0
    /\ sem = MaxWorkers
    /\ unit = [u \in Units |-> IdleUnit]
    /\ tasks = [t \in TaskIds |-> 0]
    /\ canc = IdleCaller
    /\ out = Quiet
    /\ queue = InitQueue
    /\ dict = InitDict
    /\ mon = IdleMonitor
    /\ legacy = InitLegacy
    /\ registry = InitRegistry
    /\ refs = InitRefs

InitOthers ==
    /\ cm = InitCm
    /\ InitRest

Init ==
    /\ InitOthers
    /\ lru = InitLru(Capacity)


\* the clock advances
Tick ==
    /\ now < MaxTime
    /\ now' = now + 1
    /\ out' = Quiet
    /\ UNCHANGED <<legacy, registry, refs, mon, cm, lru, queue, dict, rec, sem, unit, tasks, canc>>

\* ------------------------------------------------------------------ add_task
\* the task_id arguments of add_task: an id, the empty string, or None
RequestedIds == TaskIds \cup {"", Null}

\* str(uuid.uuid4()): an id that no add_task call has used
FreshId ==
    IF \A u \in Units : unit[u].tid # FirstId THEN FirstId
    ELSE CHOOSE t \in TaskIds : \A u \in Units : unit[u].tid # t

\* faulty variant of ResolveId (the caller's id is ignored): C12 detects it
ResolveId_AlwaysFresh(task_id) == FreshId

\* line 155: task_id = task_id or str(uuid.uuid4())
ResolveId(task_id) == IF task_id \in {"", Null} THEN FreshId ELSE task_id

\* lines 155-181: write the initial record, create the asyncio task, and wait
\* for self._background_tasks.add
add_task(u, task_id, is_sync) ==
    LET id == ResolveId(task_id) IN
    /\ unit[u].apc = "idle"
    /\ \A v \in Units : v < u => unit[v].apc # "idle"
    /\ u = 1 => id = FirstId
    /\ rec' = [rec EXCEPT ![id] = InitialRecord]
    /\ unit' = [unit EXCEPT ![u] = [IdleUnit EXCEPT !.tid = id, !.sync = is_sync,
                                                    !.apc = "tasks", !.ph = "new"]]
    /\ refs' = [refs EXCEPT !.background_tasks = @ \cup {StoredWrapper(u)}]
    /\ out' = Quiet
    /\ UNCHANGED <<legacy, registry, mon, cm, lru, queue, dict, now, sem, tasks, canc>>

\* lines 182-188: await self._tasks.set(task_id, serializable_task), then
\* self._task_to_id.set, add_done_callback and return task_id
add_task_tasks(u) ==
    /\ unit[u].apc = "tasks"
    /\ tasks' = [tasks EXCEPT ![unit[u].tid] = u]
    /\ refs' = [refs EXCEPT !.task_to_id[StoredWrapper(u)] = unit[u].tid]
    /\ unit' = [unit EXCEPT ![u].apc = "done"]
    /\ out' = Quiet
    /\ UNCHANGED <<legacy, registry, mon, cm, lru, queue, dict, rec, now, sem, canc>>

\* -------------------------------------------------------- execution routine
\* faulty variant of acquire (the routine does not wait for a slot): C15 detects it
acquire_NoWait(u) ==
    /\ unit[u].ph = "new"
    /\ sem' = sem - 1
    /\ unit' = [unit EXCEPT ![u].ph = "running", ![u].st = "get"]
    /\ out' = Quiet
    /\ UNCHANGED <<legacy, registry, refs, mon, cm, lru, queue, dict, rec, now, tasks, canc>>

\* lines 201, 232: async with self._semaphore (acquire)
acquire(u) ==
    /\ unit[u].ph = "new"
    /\ sem > 0
    /\ sem' = sem - 1
    /\ unit' = [unit EXCEPT ![u].ph = "running", ![u].st = "get"]
    /\ out' = Quiet
    /\ UNCHANGED <<legacy, registry, refs, mon, cm, lru, queue, dict, rec, now, tasks, canc>>

\* _update_task_data line 279: task_data_str := await self._redis.get(task_key)
update_get(u) ==
    /\ unit[u].ph \in UpdatePhases
    /\ unit[u].st = "get"
    /\ unit' = [unit EXCEPT ![u] =
                   IF rec[unit[u].tid] = NoRec
                   THEN AfterUpdate(u, unit[u].ph)
                   ELSE [unit[u] EXCEPT !.st = "set", !.loc = rec[unit[u].tid]]]
    /\ out' = Quiet
    /\ UNCHANGED <<legacy, registry, refs, mon, cm, lru, queue, dict, rec, now, sem, tasks, canc>>

\* _update_task_data line 298: await self._redis.set(task_key, ...)
update_set(u) ==
    /\ unit[u].ph \in UpdatePhases
    /\ unit[u].st = "set"
    /\ rec' = [rec EXCEPT ![unit[u].tid] =
                  UpdatedRecord(unit[u].loc, PhaseStatus(unit[u].ph),
                                PhaseData(unit[u].ph, unit[u].val), now)]
    /\ unit' = [unit EXCEPT ![u].st = "pub", ![u].loc = NoRec]
    /\ out' = Quiet
    /\ UNCHANGED <<legacy, registry, refs, mon, cm, lru, queue, dict, now, sem, tasks, canc>>

\* _update_task_data line 301: await self._publish_task_update(...)
update_publish(u) ==
    /\ unit[u].ph \in UpdatePhases
    /\ unit[u].st = "pub"
    /\ out' = [Quiet EXCEPT !.pub = Message(unit[u].tid, PhaseStatus(unit[u].ph),
                                            PhaseData(unit[u].ph, unit[u].val))]
    /\ unit' = [unit EXCEPT ![u] = AfterUpdate(u, unit[u].ph)]
    /\ mon' = Delivered(mon, out'.pub)
    /\ UNCHANGED <<legacy, registry, refs, cm, lru, queue, dict, rec, now, sem, tasks, canc>>

\* lines 204-210, 237-243: the body returns v; _store_task_result serializes it
body_return(u, v) ==
    /\ unit[u].ph = "body"
    /\ unit' = [unit EXCEPT ![u] =
                   IF SerializeRaises(v)
                   THEN [unit[u] EXCEPT !.ph = "error", !.st = "get", !.thread = FALSE,
                                        !.val = JsonDecodeError]
                   ELSE [unit[u] EXCEPT !.ph = "result", !.st = "get", !.thread = FALSE,
                                        !.val = SerializeResult(v)]]
    /\ out' = Quiet
    /\ UNCHANGED <<legacy, registry, refs, mon, cm, lru, queue, dict, rec, now, sem, tasks, canc>>

\* lines 216-226, 249-259: the body raises; "Event loop is closed" returns at once
body_raise(u, msg) ==
    /\ unit[u].ph = "body"
    /\ IF LoopClosed(msg)
       THEN /\ unit' = [unit EXCEPT ![u].ph = "done", ![u].thread = FALSE]
            /\ sem' = sem + 1
            /\ out' = [Quiet EXCEPT !.caught = <<unit[u].tid, msg>>]
       ELSE /\ unit' = [unit EXCEPT ![u].ph = "error", ![u].st = "get",
                                    ![u].thread = FALSE, ![u].val = msg]
            /\ sem' = sem
            /\ out' = Quiet
    /\ UNCHANGED <<legacy, registry, refs, mon, cm, lru, queue, dict, rec, now, tasks, canc>>

\* the routine ends: "async with" releases the semaphore
release(u) ==
    /\ unit[u].ph \in {"ret_try", "ret"}
    /\ sem' = sem + 1
    /\ unit' = [unit EXCEPT ![u].ph = "done", ![u].val = Null]
    /\ out' = IF unit[u].val = Null THEN Quiet
              ELSE [Quiet EXCEPT !.caught = <<unit[u].tid, unit[u].val>>]
    /\ UNCHANGED <<legacy, registry, refs, mon, cm, lru, queue, dict, rec, now, tasks, canc>>

\* line 237: the thread of a cancelled sync task runs func to its end
thread_exit(u) ==
    /\ unit[u].thread
    /\ unit[u].ph # "body"
    /\ unit' = [unit EXCEPT ![u].thread = FALSE]
    /\ out' = Quiet
    /\ UNCHANGED <<legacy, registry, refs, mon, cm, lru, queue, dict, rec, now, sem, tasks, canc>>

\* --------------------------------------------------------------- cancel_task
\* lines 333-339: read the record; only pending or running tasks go on
cancel_task(task_id) ==
    /\ canc.pc = "idle"
    /\ IF rec[task_id] # NoRec /\ rec[task_id].status \in CancellableStatuses
       THEN /\ canc' = [IdleCaller EXCEPT !.pc = "handle", !.tid = task_id]
            /\ out' = Quiet
       ELSE /\ canc' = IdleCaller
            /\ out' = [Quiet EXCEPT !.cancel_id = task_id, !.cancel_ret = "false"]
    /\ UNCHANGED <<legacy, registry, refs, mon, cm, lru, queue, dict, rec, now, sem, unit, tasks>>

\* faulty variant of cancel_task_handle (a call that finds no handle goes on to
\* write the cancelled status): C31 detects it
cancel_task_handle_WritesAnyway ==
    /\ canc.pc = "handle"
    /\ IF tasks[canc.tid] = 0
       THEN /\ canc' = [canc EXCEPT !.pc = "set", !.loc = rec[canc.tid]]
            /\ out' = Quiet
            /\ UNCHANGED <<unit, sem>>
       ELSE /\ canc' = [canc EXCEPT !.pc = "await", !.unit = tasks[canc.tid]]
            /\ out' = Quiet
            /\ unit' = [unit EXCEPT ![tasks[canc.tid]] = CancelledUnit(tasks[canc.tid])]
            /\ sem' = SemAfterCancel(tasks[canc.tid])
    /\ UNCHANGED <<legacy, registry, refs, mon, cm, lru, queue, dict, rec, now, tasks>>

\* lines 342-347: look the handle up, task.cancel(), await task
cancel_task_handle ==
    /\ canc.pc = "handle"
    /\ IF tasks[canc.tid] = 0
       THEN /\ canc' = IdleCaller
            /\ out' = [Quiet EXCEPT !.cancel_id = canc.tid, !.cancel_ret = "false"]
            /\ UNCHANGED <<legacy, registry, refs, mon, cm, lru, queue, dict, unit, sem>>
       ELSE /\ canc' = [canc EXCEPT !.pc = "await", !.unit = tasks[canc.tid]]
            /\ out' = Quiet
            /\ unit' = [unit EXCEPT ![tasks[canc.tid]] = CancelledUnit(tasks[canc.tid])]
            /\ sem' = SemAfterCancel(tasks[canc.tid])
    /\ UNCHANGED <<legacy, registry, refs, mon, cm, lru, queue, dict, rec, now, tasks>>

\* lines 347-350: the task has ended; _update_task_status(CANCELLED) reads the record
cancel_task_get ==
    /\ canc.pc = "await"
    /\ unit[canc.unit].ph = "done"
    /\ IF rec[canc.tid] = NoRec
       THEN /\ canc' = IdleCaller
            /\ out' = [Quiet EXCEPT !.cancel_id = canc.tid, !.cancel_ret = "true"]
       ELSE /\ canc' = [canc EXCEPT !.pc = "set", !.loc = rec[canc.tid]]
            /\ out' = Quiet
    /\ UNCHANGED <<legacy, registry, refs, mon, cm, lru, queue, dict, rec, now, sem, unit, tasks>>

\* _update_task_data line 298, called from cancel_task
cancel_task_set ==
    /\ canc.pc = "set"
    /\ rec' = [rec EXCEPT ![canc.tid] = UpdatedRecord(canc.loc, CANCELLED, NoData, now)]
    /\ canc' = [canc EXCEPT !.pc = "pub", !.loc = NoRec]
    /\ out' = Quiet
    /\ UNCHANGED <<legacy, registry, refs, mon, cm, lru, queue, dict, now, sem, unit, tasks>>

\* _update_task_data line 301, called from cancel_task; line 351: return True
cancel_task_publish ==
    /\ canc.pc = "pub"
    /\ out' = [Quiet EXCEPT !.pub = Message(canc.tid, CANCELLED, NoData),
                            !.cancel_id = canc.tid, !.cancel_ret = "true"]
    /\ canc' = IdleCaller
    /\ mon' = Delivered(mon, out'.pub)
    /\ UNCHANGED <<legacy, registry, refs, cm, lru, queue, dict, rec, now, sem, unit, tasks>>

\* --------------------------------------------------------- cleanup_old_tasks
\* CLEANUP_SCRIPT line 67: the test that puts a key on to_delete
\* faulty variant of ShouldDelete (a record completed at the cutoff is deleted): C8 detects it
ShouldDelete_AtCutoff(task, cutoff_ts) ==
    /\ task # NoRec
    /\ task.status \in {COMPLETED, FAILED, CANCELLED}
    /\ task.completed_at # NoTime
    /\ task.completed_at <= cutoff_ts

\* faulty variant of ShouldDelete (failed records are kept): C9 detects it
ShouldDelete_FailedKept(task, cutoff_ts) ==
    /\ task # NoRec
    /\ task.status \in {COMPLETED, CANCELLED}
    /\ task.completed_at # NoTime
    /\ task.completed_at < cutoff_ts

ShouldDelete(task, cutoff_ts) ==
    /\ task # NoRec
    /\ task.status \in {COMPLETED, FAILED, CANCELLED}
    /\ task.completed_at # NoTime
    /\ task.completed_at < cutoff_ts

\* CLEANUP_SCRIPT lines 56-72: the keys the scan collects
ToDelete(cutoff_ts) == {t \in TaskIds : ShouldDelete(rec[t], cutoff_ts)}

\* lines 364-374: cutoff_timestamp = now - max_age; the script runs in the store
\* as one command; return int(cleaned).  (A script that runs later than the cutoff
\* was computed acts as a call with a larger max_age.)
cleanup_old_tasks(max_age) ==
    /\ rec' = [t \in TaskIds |-> IF t \in ToDelete(now - max_age) THEN NoRec ELSE rec[t]]
    /\ out' = [Quiet EXCEPT !.cleaned = Cardinality(ToDelete(now - max_age)),
                            !.cutoff = now - max_age]
    /\ UNCHANGED <<legacy, registry, refs, mon, cm, lru, queue, dict, now, sem, unit, tasks, canc>>

\* ------------------------------------------ AsyncConnectionManager.execute
\* lines 146-152: an attempt of execute, the first of a call or one made by the
\* retry wrapper: with the breaker open it raises at once, otherwise the Redis
\* command is sent
execute(c) ==
    LET x == cm.call[c] IN
    /\ x.pc \in {"idle", "backoff"}
    /\ cm' = [cm EXCEPT !.call[c] =
                 IF CircuitOpen
                 THEN AfterRaise(c, x.tries + 1, CircuitOpenError)
                 ELSE [pc |-> "store", tries |-> x.tries + 1, did |-> "sent"]]
    /\ UNCHANGED <<rec, now, sem, unit, tasks, canc, out, lru, queue, dict, mon, legacy, registry, refs>>

\* lines 152-158: the Redis command ends
command_ends(c, reply) ==
    LET x == cm.call[c] IN
    /\ x.pc = "store"
    /\ cm' = CASE reply = "ok" ->
                   [cm EXCEPT !.failure_count = 0, !.call[c] = [IdleCall EXCEPT !.did = "ok"]]
              [] reply \in CaughtReplies ->
                   [cm EXCEPT !.failure_count = @ + 1, !.last_failure = now,
                              !.call[c] = AfterRaise(c, x.tries, CommandFailedError)]
              [] OTHER ->
                   [cm EXCEPT !.call[c] = AfterRaise(c, x.tries, reply)]
    /\ UNCHANGED <<rec, now, sem, unit, tasks, canc, out, lru, queue, dict, mon, legacy, registry, refs>>

\* ------------------------------------------------------- store errors
\* a command of _update_task_data (lines 279, 298, 301) raises in the routine
\* of unit u: inside the try block "except Exception" catches it and goes on to
\* _store_task_error; inside a handler it leaves the routine, "async with"
\* releases the semaphore and the asyncio task ends with the exception
update_fails(u) ==
    /\ unit[u].ph \in UpdatePhases
    /\ IF InTry(unit[u].ph)
       THEN /\ unit' = [unit EXCEPT ![u].ph = "error", ![u].st = "get",
                                    ![u].loc = NoRec, ![u].val = StoreError,
                                    ![u].sync = FALSE]
            /\ sem' = sem
       ELSE /\ unit' = [unit EXCEPT ![u].ph = "crashed", ![u].st = "-",
                                    ![u].loc = NoRec, ![u].val = Null]
            /\ sem' = sem + 1
    /\ out' = [Quiet EXCEPT !.fault = "_update_task_data"]
    /\ UNCHANGED <<legacy, registry, refs, mon, cm, lru, queue, dict, rec, now, tasks, canc>>

\* line 167: the write of the initial record raises; no asyncio task is created
add_task_fails(task_id) ==
    /\ out' = [Quiet EXCEPT !.fault = "add_task", !.raised = StoreError]
    /\ UNCHANGED <<legacy, registry, refs, mon, cm, lru, queue, dict, rec, now, sem, unit, tasks, canc>>

\* line 323: the read raises
get_task_result_fails(task_id) ==
    /\ out' = [Quiet EXCEPT !.fault = "get_task_result", !.raised = StoreError]
    /\ UNCHANGED <<legacy, registry, refs, mon, cm, lru, queue, dict, rec, now, sem, unit, tasks, canc>>

\* line 334, or a command of _update_task_status(CANCELLED) at line 350, raises
cancel_task_fails(task_id) ==
    /\ \/ canc.pc = "idle"
       \/ canc.pc \in {"set", "pub"} /\ canc.tid = task_id
       \/ canc.pc = "await" /\ canc.tid = task_id /\ unit[canc.unit].ph = "done"
    /\ canc' = IdleCaller
    /\ out' = [Quiet EXCEPT !.cancel_id = task_id, !.fault = "cancel_task",
                            !.raised = StoreError]
    /\ UNCHANGED <<legacy, registry, refs, mon, cm, lru, queue, dict, rec, now, sem, unit, tasks>>

\* line 347: "await task" on a task that ended with an exception raises it
cancel_task_reraises ==
    /\ canc.pc = "await"
    /\ unit[canc.unit].ph = "crashed"
    /\ canc' = IdleCaller
    /\ out' = [Quiet EXCEPT !.cancel_id = canc.tid, !.raised = StoreError]
    /\ UNCHANGED <<legacy, registry, refs, mon, cm, lru, queue, dict, rec, now, sem, unit, tasks>>

\* lines 368-377: the script raises; "except Exception" logs it and returns 0
cleanup_old_tasks_fails(max_age) ==
    /\ out' = [Quiet EXCEPT !.cleaned = 0, !.cutoff = now - max_age,
                            !.fault = "cleanup_old_tasks"]
    /\ UNCHANGED <<legacy, registry, refs, mon, cm, lru, queue, dict, rec, now, sem, unit, tasks, canc>>

\* the steps of the execution routine of unit u
routine(u) ==
    \/ acquire(u)
    \/ update_get(u)
    \/ update_set(u)
    \/ update_publish(u)
    \/ \E v \in ReturnValues : body_return(u, v)
    \/ \E m \in ErrorMessages : body_raise(u, m)
    \/ release(u)

Next ==
    \/ \E u \in Units, t \in RequestedIds, s \in BOOLEAN : add_task(u, t, s)
    \/ \E u \in Units : add_task_tasks(u)
    \/ \E u \in Units : routine(u)
    \/ \E u \in Units : thread_exit(u)
    \/ \E t \in TaskIds : cancel_task(t)
    \/ cancel_task_handle
    \/ cancel_task_get
    \/ cancel_task_set
    \/ cancel_task_publish
    \/ \E m \in MaxAges : cleanup_old_tasks(m)

\* the processor with cancel_task and cleanup_old_tasks, at one instant of the clock
Spec == Init /\ [][Next]_vars

\* cancel_task from its call to its return
cancel_task_steps ==
    \/ \E t \in TaskIds : cancel_task(t)
    \/ cancel_task_handle
    \/ cancel_task_get
    \/ cancel_task_set
    \/ cancel_task_publish

NextFault ==
    \/ \E u \in Units, t \in TaskIds, s \in BOOLEAN : add_task(u, t, s)
    \/ \E u \in Units : add_task_tasks(u)
    \/ \E u \in Units : routine(u)
    \/ \E u \in Units : thread_exit(u)
    \/ cancel_task_steps
    \/ \E u \in Units : update_fails(u)
    \/ cancel_task_reraises

\* the execution routines and cancel_task on a store whose commands can raise
FaultSpec == Init /\ [][NextFault]_vars

NextCallerFault ==
    \/ \E u \in Units, t \in TaskIds : add_task(u, t, FALSE)
    \/ \E u \in Units : add_task_tasks(u)
    \/ \E u \in Units : routine(u)
    \/ cancel_task_steps
    \/ \E m \in MaxAges : cleanup_old_tasks(m)
    \/ \E t \in TaskIds : add_task_fails(t)
    \/ \E t \in TaskIds : get_task_result_fails(t)
    \/ \E t \in TaskIds : cancel_task_fails(t)
    \/ \E m \in MaxAges : cleanup_old_tasks_fails(m)

\* the operations that callers await, on a store whose commands can raise
CallerFaultSpec == Init /\ [][NextCallerFault]_vars

NextTimed ==
    \/ Tick
    \/ \E u \in Units, t \in RequestedIds : add_task(u, t, FALSE)
    \/ \E u \in Units : add_task_tasks(u)
    \/ \E u \in Units : routine(u)
    \/ \E m \in MaxAges : cleanup_old_tasks(m)

\* the processor with cleanup_old_tasks while the clock advances
TimedSpec == Init /\ [][NextTimed]_vars

NextCircuit ==
    \/ Tick
    \/ \E c \in Callers : execute(c)
    \/ \E c \in Callers, reply \in StoreReplies : command_ends(c, reply)

\* the connection manager with concurrent callers while the clock advances
CircuitSpec == Init /\ [][NextCircuit]_vars

\* AsyncConnectionManager(retry_max_attempts=r), lines 55 and 113
RetryInit ==
    /\ \E r \in RetryMaxAttempts : cm = [InitCm EXCEPT !.retry_max_attempts = r]
    /\ InitRest
    /\ lru = InitLru(Capacity)

\* connection managers constructed with each retry_max_attempts
RetrySpec == RetryInit /\ [][NextCircuit]_vars

\* ------------------------------------------------------- LRU cache: actions
Others == <<rec, now, sem, unit, tasks, canc, out, cm, queue, dict, mon, legacy, registry, refs>>

\* put up to its first await that another handle can see through: the
\* pipeline LREM, LPUSH, HSET, LLEN runs as one transaction; the handle keeps
\* its lock and goes on to evict when the list is too long
put_pipeline(l, i, field, value) ==
    LET order == lpush(lrem(l.order, field), field) IN
    IF Len(order) > l.capacity
    THEN [l EXCEPT !.order = order,
                   !.hash[field] = value,
                   !.h[i] = [IdleHandle EXCEPT !.pc = "rpop", !.field = field,
                                               !.llen = Len(order)],
                   !.read = NoRead]
    ELSE [l EXCEPT !.order = order,
                   !.hash[field] = value,
                   !.read = [NoRead EXCEPT !.op = "put", !.key = field, !.ok = TRUE,
                                           !.n = Len(order)]]

\* put: lru_field = await execute("rpop", order)
put_after_rpop(l, i) ==
    IF l.order = <<>>
    THEN [l EXCEPT !.h[i] = IdleHandle,
                   !.read = [NoRead EXCEPT !.op = "put", !.key = l.h[i].field,
                                           !.ok = TRUE, !.n = l.h[i].llen]]
    ELSE [l EXCEPT !.order = rpop(l.order).rest,
                   !.h[i].pc = "hdel",
                   !.h[i].lru_field = rpop(l.order).popped,
                   !.read = NoRead]

\* put: await execute("hdel", cache_key, lru_field); return True
put_after_hdel(l, i) ==
    [l EXCEPT !.hash[l.h[i].lru_field] = Null,
              !.h[i] = IdleHandle,
              !.read = [NoRead EXCEPT !.op = "put", !.key = l.h[i].field, !.ok = TRUE,
                                      !.n = l.h[i].llen]]

\* get: data = await execute("hget", cache_key, field)
get_hget(l, i, field) ==
    IF l.hash[field] = Null
    THEN [l EXCEPT !.read = [NoRead EXCEPT !.op = "get", !.key = field]]
    ELSE [l EXCEPT !.h[i] = [IdleHandle EXCEPT !.pc = "promote", !.field = field,
                                               !.data = l.hash[field]],
                   !.read = NoRead]

\* get: the pipeline LREM, LPUSH, then the value read before it is returned
get_after_pipeline(l, i) ==
    [l EXCEPT !.order = lpush(lrem(l.order, l.h[i].field), l.h[i].field),
              !.h[i] = IdleHandle,
              !.read = [NoRead EXCEPT !.op = "get", !.key = l.h[i].field,
                                      !.val = l.h[i].data]]

\* peek that marks the field as used, as get does
AfterPeek_Promoting(l, field) ==
    [l EXCEPT !.order = IF l.hash[field] = Null THEN l.order
                        ELSE lpush(lrem(l.order, field), field),
              !.read = [NoRead EXCEPT !.op = "peek", !.key = field, !.val = l.hash[field]]]

\* peek: HGET, None when there is no data
AfterPeek(l, field) ==
    [l EXCEPT !.read = [NoRead EXCEPT !.op = "peek", !.key = field, !.val = l.hash[field]]]

put(i, field, value) ==
    /\ lru.h[i].pc = "idle"
    /\ lru' = put_pipeline(lru, i, field, value)
    /\ UNCHANGED Others

put_rpop(i) ==
    /\ lru.h[i].pc = "rpop"
    /\ lru' = put_after_rpop(lru, i)
    /\ UNCHANGED Others

put_hdel(i) ==
    /\ lru.h[i].pc = "hdel"
    /\ lru' = put_after_hdel(lru, i)
    /\ UNCHANGED Others

get(i, field) ==
    /\ lru.h[i].pc = "idle"
    /\ lru' = get_hget(lru, i, field)
    /\ UNCHANGED Others

get_promote(i) ==
    /\ lru.h[i].pc = "promote"
    /\ lru' = get_after_pipeline(lru, i)
    /\ UNCHANGED Others

peek(i, field) ==
    /\ lru.h[i].pc = "idle"
    /\ lru' = AfterPeek(lru, field)
    /\ UNCHANGED Others

\* remove: the pipeline HDEL, LREM; returns bool(results[0])
remove(i, field) ==
    /\ lru.h[i].pc = "idle"
    /\ lru' = [lru EXCEPT !.hash[field] = Null,
                          !.order = lrem(lru.order, field),
                          !.read = [NoRead EXCEPT !.op = "remove", !.key = field,
                                                  !.ok = lru.hash[field] # Null]]
    /\ UNCHANGED Others

\* clear: the pipeline DELETE cache_key, DELETE cache_key:order
clear(i) ==
    /\ lru.h[i].pc = "idle"
    /\ lru' = [lru EXCEPT !.hash = [f \in Fields |-> Null],
                          !.order = <<>>,
                          !.read = [NoRead EXCEPT !.op = "clear", !.ok = TRUE]]
    /\ UNCHANGED Others

size(i) ==
    /\ lru.h[i].pc = "idle"
    /\ lru' = [lru EXCEPT !.read = [NoRead EXCEPT !.op = "size", !.n = hlen]]
    /\ UNCHANGED Others

NextLru ==
    \/ \E i \in Handles, field \in Fields, value \in Values : put(i, field, value)
    \/ \E i \in Handles : put_rpop(i)
    \/ \E i \in Handles : put_hdel(i)
    \/ \E i \in Handles, field \in Fields : get(i, field)
    \/ \E i \in Handles : get_promote(i)
    \/ \E i \in Handles, field \in Fields : peek(i, field)
    \/ \E i \in Handles, field \in Fields : remove(i, field)
    \/ \E i \in Handles : clear(i)
    \/ \E i \in Handles : size(i)

\* a cache of any capacity is constructed
LruInit ==
    /\ InitOthers
    /\ \E requested \in RequestedCapacities : lru = InitLru(requested)

\* one LRU cache key used through several handles
LruSpec == LruInit /\ [][NextLru]_vars

\* put from its call to its return, nothing else running on the key
put_call(field, value) ==
    LET i == FirstHandle
        piped == put_pipeline(lru, i, field, value)
        popped == IF piped.h[i].pc = "rpop" THEN put_after_rpop(piped, i) ELSE piped
    IN
    /\ lru.h[i].pc = "idle"
    /\ lru' = IF popped.h[i].pc = "hdel" THEN put_after_hdel(popped, i) ELSE popped
    /\ UNCHANGED Others

\* get from its call to its return, nothing else running on the key
get_call(field) ==
    LET i == FirstHandle
        read == get_hget(lru, i, field)
    IN
    /\ lru.h[i].pc = "idle"
    /\ lru' = IF read.h[i].pc = "promote" THEN get_after_pipeline(read, i) ELSE read
    /\ UNCHANGED Others

NextLruAlone ==
    \/ \E field \in Fields, value \in Values : put_call(field, value)
    \/ \E field \in Fields : get_call(field)
    \/ \E field \in Fields : peek(FirstHandle, field)
    \/ \E field \in Fields : remove(FirstHandle, field)
    \/ clear(FirstHandle)
    \/ size(FirstHandle)

\* one LRU cache used by one caller through one handle
LruAloneSpec == LruInit /\ [][NextLruAlone]_vars

\* ----------------------------------------------------------- Queue: actions
NotQueue == <<rec, now, sem, unit, tasks, canc, out, cm, lru, dict, mon, legacy, registry, refs>>

\* push: bool(RPUSH), the new length of the list
queue_push ==
    /\ queue.pushed < MaxPushes
    /\ LET list == rpush(queue.list, queue.pushed + 1) IN
       queue' = [queue EXCEPT !.list = list,
                              !.pushed = @ + 1,
                              !.ret = [NoAnswer EXCEPT !.op = "push", !.ok = Len(list) # 0]]
    /\ UNCHANGED NotQueue

\* pop: LPOP, None when there is no data
queue_pop ==
    /\ queue' = [queue EXCEPT !.list = lpop(queue.list).rest,
                              !.removed = @ + Len(queue.list) - Len(lpop(queue.list).rest),
                              !.ret = [NoAnswer EXCEPT !.op = "pop",
                                                       !.item = lpop(queue.list).popped]]
    /\ UNCHANGED NotQueue

\* peek: LINDEX 0, None when there is no data
queue_peek ==
    /\ queue' = [queue EXCEPT !.ret = [NoAnswer EXCEPT !.op = "peek",
                                                       !.item = lindex0(queue.list)]]
    /\ UNCHANGED NotQueue

\* size: LLEN or 0
queue_size ==
    /\ queue' = [queue EXCEPT !.ret = [NoAnswer EXCEPT !.op = "size",
                                                       !.n = Len(queue.list)]]
    /\ UNCHANGED NotQueue

\* clear: DELETE key
queue_clear ==
    /\ queue' = [queue EXCEPT !.list = <<>>,
                              !.removed = @ + Len(queue.list),
                              !.ret = [NoAnswer EXCEPT !.op = "clear", !.ok = TRUE]]
    /\ UNCHANGED NotQueue

NextQueue ==
    \/ queue_push
    \/ queue_pop
    \/ queue_peek
    \/ queue_size
    \/ queue_clear

\* one AsyncQueue: every operation is one command of the store
QueueSpec == Init /\ [][NextQueue]_vars

\* ------------------------------------------------------------ Dict: actions
NotDict == <<rec, now, sem, unit, tasks, canc, out, cm, lru, queue, mon, legacy, registry, refs>>

\* a coroutine calls an operation of the dictionary
dict_call(c, op, key) ==
    /\ dict.call[c].pc = "idle"
    /\ dict' = Enter(dict, c, Frame(op, key))
    /\ UNCHANGED NotDict

\* the lock is free and goes to a coroutine waiting for it
dict_acquire(c) ==
    /\ dict.call[c].pc = "wait"
    /\ ~dict.locked
    /\ dict' = [dict EXCEPT !.locked = TRUE, !.call[c].pc = "run"]
    /\ UNCHANGED NotDict

\* a coroutine inside the lock goes on to its next await or to its return
dict_run(c) ==
    LET frame == Head(dict.call[c].stack) IN
    /\ dict.call[c].pc = "run"
    /\ dict' =
          IF frame.op \in SimpleOps \/ (frame.listed /\ (frame.op = "size" \/ frame.todo = <<>>))
          THEN Leave(dict, c)
          ELSE IF ~frame.listed
          THEN Enter(dict, c, Frame("keys", Null))
          ELSE Enter(dict, c, Frame(IF frame.op = "clear" THEN "delete" ELSE "get",
                                    Head(frame.todo)))
    /\ UNCHANGED NotDict

NextDict ==
    \/ \E c \in DictCallers, op \in SimpleOps \ {"keys"}, key \in DictKeys :
          dict_call(c, op, key)
    \/ \E c \in DictCallers, op \in CompositeOps \cup {"keys"} : dict_call(c, op, Null)
    \/ \E c \in DictCallers : dict_acquire(c)
    \/ \E c \in DictCallers : dict_run(c)

\* one AsyncDict used by concurrent coroutines
DictSpec == Init /\ [][NextDict]_vars

\* the store answers every command, and asyncio.Lock wakes its waiters in turn
DictFairness ==
    \A c \in DictCallers : SF_vars(dict_acquire(c)) /\ WF_vars(dict_run(c))

DictFairSpec == DictSpec /\ DictFairness

\* the event loop runs every ready coroutine, the store answers every request,
\* and a submitted callable returns or raises
Fairness ==
    /\ \A u \in Units : WF_vars(add_task_tasks(u))
    /\ \A u \in Units : WF_vars(routine(u))
    /\ WF_vars(cancel_task_handle \/ cancel_task_get \/ cancel_task_set
                  \/ cancel_task_publish)

FairSpec == Spec /\ Fairness

\* ------------------------------------------------------------------ readers
\* get_task_result: the record, NoRec standing for None
get_task_result(task_id) == rec[task_id]

IsTerminal(task) == task.status \in {COMPLETED, FAILED, CANCELLED}

\* add_task was called at most once with this task id
SubmittedOnce(task_id) == Cardinality({u \in Units : unit[u].tid = task_id}) <= 1

\* the units whose callable is executing: an async body on the event loop
\* (between line 204's call and its return) or a sync body in a pool thread
Executing == {u \in Units : unit[u].ph = "body" \/ unit[u].thread}

\* the routine of unit u has not yet written a result, an error or a cancellation
\* (it is before the store write of its first _store_task_result,
\* _store_task_error or _update_task_status(CANCELLED))
NothingStored(u) ==
    \/ unit[u].ph \in {"new", "running", "body"}
    \/ unit[u].ph \in {"result", "error", "cancelled"} /\ unit[u].st \in {"get", "set"}

\* the units whose routine is inside "async with self._semaphore"
Holding == {u \in Units : unit[u].ph \notin {"idle", "new", "done", "crashed"}}

\* ------------------------------------------------------------ _monitor_task
NotMonitor == <<rec, now, sem, unit, tasks, canc, cm, lru, queue, dict, legacy, registry, refs>>

\* line 381: subscribe to the channel of a task that add_task has returned
\* the id of (the handler awaits add_task, then _monitor_task)
monitor_subscribe(task_id) ==
    /\ mon.pc = "idle"
    /\ \E u \in Units : unit[u].tid = task_id /\ unit[u].apc = "done"
    /\ mon' = [IdleMonitor EXCEPT !.pc = "read", !.task_id = task_id]
    /\ out' = Quiet
    /\ UNCHANGED NotMonitor

\* lines 388-391: the initial check; a terminal record is handed to
\* _handle_task_update and the call returns through the finally of line 452
monitor_read ==
    LET task_data == get_task_result(mon.task_id) IN
    /\ mon.pc = "read"
    /\ mon' = IF task_data # NoRec /\ IsTerminal(task_data)
              THEN [mon EXCEPT !.pc = "done", !.inbox = <<>>,
                               !.sent = Append(@, Broadcast(task_data.status, RecordTaskId))]
              ELSE [mon EXCEPT !.pc = "wait"]
    /\ out' = Quiet
    /\ UNCHANGED NotMonitor

\* lines 411-447: a message of the channel; a terminal status is broadcast and
\* ends the loop, any other status is passed over
monitor_message ==
    /\ mon.pc = "wait"
    /\ mon.inbox # <<>>
    /\ mon' = IF Head(mon.inbox) \in TerminalStatuses
              THEN [mon EXCEPT !.pc = "done", !.inbox = <<>>,
                               !.sent = Append(@, Broadcast(Head(mon.inbox), mon.task_id))]
              ELSE [mon EXCEPT !.inbox = Tail(@)]
    /\ out' = Quiet
    /\ UNCHANGED NotMonitor

\* lines 396-408: timeout_seconds have passed at the head of the loop
monitor_timeout ==
    /\ mon.pc = "wait"
    /\ mon' = [mon EXCEPT !.pc = "done", !.inbox = <<>>,
                          !.sent = Append(@, [type |-> "task_timeout",
                                              task_id |-> mon.task_id])]
    /\ out' = Quiet
    /\ UNCHANGED NotMonitor

\* one task is submitted, once
NextMonitor ==
    \/ \E s \in BOOLEAN : add_task(1, FirstId, s)
    \/ \E u \in Units : add_task_tasks(u)
    \/ \E u \in Units : routine(u)
    \/ \E u \in Units : thread_exit(u)
    \/ cancel_task_steps
    \/ \E t \in TaskIds : monitor_subscribe(t)
    \/ monitor_read
    \/ monitor_message
    \/ monitor_timeout

\* the execution routine of one task, cancel_task and one monitor
MonitorSpec == Init /\ [][NextMonitor]_vars

\* the event loop also runs the monitor whenever it can take a step; nothing
\* forces the timeout to pass
MonitorFairSpec == MonitorSpec /\ Fairness /\ WF_vars(monitor_read) /\ WF_vars(monitor_message)

\* ------------------------------------------------------ the done-callback
\* line 186 and _remove_task_from_set, lines 107-114: once the asyncio task of
\* unit u is done, its callback makes a wrapper of its own around the task
\* (line 109), removes that wrapper from _background_tasks, and, if _task_to_id
\* has an entry under that wrapper, deletes the entry and the _tasks entry of
\* the task id found
remove_task_from_set(u) ==
    LET serializable_task == CallbackWrapper(u)
        task_id == refs.task_to_id[serializable_task]
    IN  /\ unit[u].apc = "done"
        /\ unit[u].ph \in {"done", "crashed"}
        /\ u \notin refs.called
        /\ refs' = [refs EXCEPT !.background_tasks = @ \ {serializable_task},
                                !.task_to_id[serializable_task] = Null,
                                !.called = @ \cup {u}]
        /\ tasks' = IF task_id # Null THEN [tasks EXCEPT ![task_id] = 0] ELSE tasks
        /\ out' = Quiet
        /\ UNCHANGED <<legacy, registry, mon, cm, lru, queue, dict, rec, now, sem, unit, canc>>

\* tasks are submitted, run, are cancelled, and their done-callbacks run
NextRefs ==
    \/ \E u \in Units, t \in RequestedIds, s \in BOOLEAN : add_task(u, t, s)
    \/ \E u \in Units : add_task_tasks(u)
    \/ \E u \in Units : routine(u)
    \/ \E u \in Units : thread_exit(u)
    \/ cancel_task_steps
    \/ \E u \in Units : remove_task_from_set(u)

RefsSpec == Init /\ [][NextRefs]_vars

\* the event loop runs every scheduled done-callback
RefsFairSpec == RefsSpec /\ Fairness /\ \A u \in Units : WF_vars(remove_task_from_set(u))

\* --------------------------------- the pending-policy processor: actions
NotLegacy == <<rec, now, sem, unit, tasks, canc, out, cm, lru, queue, dict, mon, registry, refs>>

\* add_task lines 67-104: write the pending record and create the asyncio task
legacy_add_task(u, task_id) ==
    /\ legacy.unit[u].ph = "idle"
    /\ \A v \in Units : v < u => legacy.unit[v].ph # "idle"
    /\ legacy' = [legacy EXCEPT !.rec[task_id] = LegacyInitialRecord,
                                !.unit[u] = [tid |-> task_id, ph |-> "new"],
                                !.ret = NoLegacyReturn]
    /\ UNCHANGED NotLegacy

\* lines 108-111, 117-122: a slot of the semaphore is taken, the running status
\* is written and the callable is called
legacy_start(u) ==
    LET t == legacy.unit[u].tid IN
    /\ legacy.unit[u].ph = "new"
    /\ legacy.sem > 0
    /\ legacy' = [legacy EXCEPT !.sem = @ - 1,
                                !.rec[t] = LegacyStatusWritten(@, RUNNING),
                                !.unit[u].ph = "body",
                                !.ret = NoLegacyReturn]
    /\ UNCHANGED NotLegacy

\* lines 111-112, 122-124: the callable returns; _store_task_result; the slot is freed
legacy_return(u, v) ==
    LET t == legacy.unit[u].tid IN
    /\ legacy.unit[u].ph = "body"
    /\ legacy' = [legacy EXCEPT !.sem = @ + 1,
                                !.rec[t] = LegacyResultWritten(@, v, now),
                                !.unit[u].ph = "done",
                                !.ret = NoLegacyReturn]
    /\ UNCHANGED NotLegacy

\* lines 113-114, 125-126: the callable raises; _store_task_error; the slot is freed
legacy_raise(u, msg) ==
    LET t == legacy.unit[u].tid IN
    /\ legacy.unit[u].ph = "body"
    /\ legacy' = [legacy EXCEPT !.sem = @ + 1,
                                !.rec[t] = LegacyErrorWritten(@, msg, now),
                                !.unit[u].ph = "done",
                                !.ret = NoLegacyReturn]
    /\ UNCHANGED NotLegacy

\* cancel_task lines 167-183: the record of a pending or running task is marked
\* cancelled; the asyncio task is not touched
legacy_cancel_task(task_id) ==
    LET task_data == legacy.rec[task_id] IN
    /\ legacy' = IF task_data # NoRec /\ task_data.status \in CancellableStatuses
                 THEN [legacy EXCEPT !.rec[task_id] = [task_data EXCEPT !.status = CANCELLED,
                                                                       !.completed_at = now],
                                     !.ret = [NoLegacyReturn EXCEPT !.cancel_id = task_id,
                                                                    !.cancel_ret = "true"]]
                 ELSE [legacy EXCEPT !.ret = [NoLegacyReturn EXCEPT !.cancel_id = task_id,
                                                                    !.cancel_ret = "false"]]
    /\ UNCHANGED NotLegacy

\* cleanup_old_tasks lines 185-207
legacy_cleanup_old_tasks(max_age) ==
    LET gone == {t \in TaskIds : LegacyShouldDelete(legacy.rec[t], max_age)} IN
    /\ legacy' = [legacy EXCEPT !.rec = [t \in TaskIds |-> IF t \in gone THEN NoRec ELSE @[t]],
                                !.ret = [NoLegacyReturn EXCEPT !.cleaned = Cardinality(gone)]]
    /\ UNCHANGED NotLegacy

NextLegacy ==
    \/ Tick
    \/ \E u \in Units, t \in TaskIds : legacy_add_task(u, t)
    \/ \E u \in Units : legacy_start(u)
    \/ \E u \in Units, v \in ReturnValues : legacy_return(u, v)
    \/ \E u \in Units, m \in ErrorMessages : legacy_raise(u, m)
    \/ \E t \in TaskIds : legacy_cancel_task(t)
    \/ \E m \in MaxAges : legacy_cleanup_old_tasks(m)

\* the pending-policy processor while the clock advances
LegacySpec == Init /\ [][NextLegacy]_vars

\* ------------------------------------------------ websocket ConnectionManager
\* app/api/handlers/websocket/connection_manager.py: the registry of websockets
NotRegistry == <<rec, now, sem, unit, tasks, canc, out, cm, lru, queue, dict, mon, legacy, refs>>

\* connect(websocket, user_id), lines 33-78: the user joins active_users, the
\* metadata's connection_count is incremented (1 when there was no metadata),
\* the websocket is tracked under the user and gets a heartbeat
connect(websocket, user_id) ==
    /\ registry.owner[websocket] = NoUser
    /\ registry' = [registry EXCEPT
            !.active_users = @ \cup {user_id},
            !.connection_metadata[user_id] = IF @ > 0 THEN @ + 1 ELSE 1,
            !.connections[user_id] = @ \cup {websocket},
            !.last_heartbeat = @ \cup {websocket},
            !.owner[websocket] = user_id]
    /\ UNCHANGED NotRegistry

\* the metadata branch of disconnect, lines 92-103: connection_count is
\* decremented whether or not the websocket was tracked; at 0 the metadata is
\* deleted and the user leaves active_users
DisconnectMetadata(r, user_id) ==
    IF r.connection_metadata[user_id] > 0
    THEN IF r.connection_metadata[user_id] - 1 <= 0
         THEN [r EXCEPT !.connection_metadata[user_id] = 0,
                        !.active_users = @ \ {user_id}]
         ELSE [r EXCEPT !.connection_metadata[user_id] = @ - 1]
    ELSE r

\* disconnect(websocket, user_id), lines 80-108, called for a websocket by
\* handle_failed_connection (line 122), by close (line 200) and by the endpoint:
\* nothing happens unless the user has tracked websockets; discard and the
\* heartbeat removal are no-ops for a websocket already removed
disconnect(websocket, user_id) ==
    /\ registry.owner[websocket] = user_id
    /\ registry.disconnects[websocket] < MaxDisconnects
    /\ LET counted == [registry EXCEPT !.disconnects[websocket] = @ + 1]
       IN  registry' =
               IF registry.connections[user_id] # {}
               THEN DisconnectMetadata(
                        [counted EXCEPT !.connections[user_id] = @ \ {websocket},
                                        !.last_heartbeat = @ \ {websocket}],
                        user_id)
               ELSE counted
    /\ UNCHANGED NotRegistry

NextRegistry ==
    \/ \E w \in Sockets, u \in Users : connect(w, u)
    \/ \E w \in Sockets, u \in Users : disconnect(w, u)

\* websockets of two users connecting and being disconnected
RegistrySpec == Init /\ [][NextRegistry]_vars

\* ------------------------------------------------------------------- claims
\* C1: once a record holds a terminal status, no later step (a write of the
\* execution routine, of cancel_task, or of add_task reusing the id) changes its
\* status, result or error; only cleanup_old_tasks removes it.
C1_TerminalIsFinal ==
    [][\A t \in TaskIds :
          IsTerminal(rec[t]) /\ rec'[t] # NoRec
          => /\ rec'[t].status = rec[t].status
             /\ rec'[t].result = rec[t].result
             /\ rec'[t].error = rec[t].error]_vars

\* C2: in every record completed_at is set iff the status is terminal, a result
\* is stored only under status completed and an error only under status failed.
C2_RecordInvariant ==
    \A t \in TaskIds :
        rec[t] # NoRec =>
            /\ (rec[t].completed_at # NoTime) <=> IsTerminal(rec[t])
            /\ rec[t].result # Null => rec[t].status = COMPLETED
            /\ rec[t].error # Null => rec[t].status = FAILED

\* C3: under fair scheduling and a responsive store, every submitted task whose
\* callable returns or raises eventually has a terminal status in its record,
\* whatever the exception raised.
C3_EventuallyTerminal ==
    \A t \in TaskIds :
        (get_task_result(t).status = RUNNING) ~> IsTerminal(get_task_result(t))

\* C4: at every moment at most max_workers caller-supplied bodies are executing,
\* on the event loop and in the thread pool together.
C4_BoundedBodies == Cardinality(Executing) <= MaxWorkers

\* C5 as written: once cancel_task has read a pending or running record, the
\* call returns true and the record is cancelled when it returns.
C5_AlwaysCancels ==
    [][canc.pc # "idle" /\ out'.cancel_ret # Null
       => out'.cancel_ret = "true" /\ rec'[canc.tid].status = CANCELLED]_vars

\* C5: a cancel_task call that read a pending or running record returns false
\* only when it finds no handle for the id; when it returns true the record is
\* cancelled, unless cleanup_old_tasks has deleted it or add_task was called
\* again with the id; and a call made while the record is cancelled returns false.
C5_CancelYieldsCancelled ==
    [][/\ canc.pc # "idle" /\ out'.cancel_ret = "false"
          => canc.pc = "handle" /\ tasks[canc.tid] = 0
       /\ out'.cancel_ret = "true" /\ SubmittedOnce(canc.tid)
          => \/ get_task_result(out.cancel_id)' = NoRec
             \/ get_task_result(out.cancel_id)'.status = CANCELLED
       /\ \A t \in TaskIds :
             canc.pc = "idle" /\ rec[t].status = CANCELLED /\ out'.cancel_id = t
             => out'.cancel_ret = "false"]_vars

C5_Witness ==
    /\ out.cancel_ret = "true"
    /\ out.pub.status = CANCELLED
    /\ rec[out.cancel_id].status = CANCELLED
    /\ SubmittedOnce(out.cancel_id)

\* C6: cancel_task on an id whose record is terminal or absent returns false,
\* leaves every record as it was, creates none and publishes nothing.
C6_CancelTerminalRefused ==
    [][\A t \in TaskIds :
          cancel_task(t) /\ (get_task_result(t) = NoRec \/ IsTerminal(get_task_result(t)))
          => /\ out'.cancel_id = t /\ out'.cancel_ret = "false"
             /\ rec' = rec
             /\ out'.pub = NoMsg]_vars

C6_Witness ==
    /\ out.cancel_ret = "false"
    /\ rec[out.cancel_id].status = COMPLETED
    /\ canc.pc = "idle"

\* C7: when cancel_task returns true the callable of the cancelled task is no
\* longer executing, on the event loop or in a pool thread, and the record is
\* cancelled (or deleted by cleanup_old_tasks, or the id was submitted again).
C7_TrueAfterTermination ==
    [][out'.cancel_ret = "true"
       => /\ unit'[canc.unit].ph # "body"
          /\ ~unit'[canc.unit].thread
          /\ SubmittedOnce(canc.tid)
             => \/ get_task_result(out.cancel_id)' = NoRec
                \/ get_task_result(out.cancel_id)'.status = CANCELLED]_vars

\* A step with out'.cleaned set is a cleanup_old_tasks call returning that count,
\* out'.cutoff being its cutoff now - max_age.
\* C8: cleanup_old_tasks(max_age) deletes no pending or running record,
\* whatever its age, and no terminal record whose completed_at is not older
\* than the cutoff now - max_age.
C8_CleanupKeeps ==
    [][out'.cleaned # NoCount
       => /\ \E m \in MaxAges : out'.cutoff = now - m
          /\ \A t \in TaskIds :
                /\ rec[t] # NoRec
                /\ ~IsTerminal(rec[t]) \/ rec[t].completed_at >= out'.cutoff
                => rec'[t] = rec[t]]_vars

C8_Witness ==
    /\ out.cleaned # NoCount
    /\ \E t \in TaskIds : IsTerminal(rec[t]) /\ rec[t].completed_at >= out.cutoff
    /\ \E t \in TaskIds : rec[t].status = RUNNING /\ now > 0

\* C9: cleanup_old_tasks(max_age) deletes every terminal record whose
\* completed_at is older than the cutoff, returns the number of records it
\* deleted, and get_task_result then returns null for each deleted id.
C9_CleanupDeletes ==
    [][out'.cleaned # NoCount
       => /\ \E m \in MaxAges : out'.cutoff = now - m
          /\ \A t \in TaskIds :
                IsTerminal(rec[t]) /\ rec[t].completed_at < out'.cutoff
                => get_task_result(t)' = NoRec
          /\ out'.cleaned
               = Cardinality({t \in TaskIds : rec[t] # NoRec /\ rec'[t] = NoRec})]_vars

C9_Witness ==
    /\ out.cleaned = 2
    /\ \A t \in TaskIds : get_task_result(t) = NoRec

\* C10: when a submitted callable raises an exception the record ends with
\* status failed, the exception's message as error and no result (the id being
\* submitted once and the record not yet deleted by cleanup_old_tasks).
C10_RaisedIsFailed ==
    out.caught # NoData /\ out.caught[2] \in ErrorMessages /\ SubmittedOnce(out.caught[1])
    => \/ rec[out.caught[1]] = NoRec
       \/ /\ rec[out.caught[1]].status = FAILED
          /\ rec[out.caught[1]].error = out.caught[2]
          /\ rec[out.caught[1]].result = Null

\* C11: a body that returns a value, whatever its kind, is recorded as
\* completed with the serialized value: when the body returns v the routine
\* goes on to store SerializeResult(v), never an error.
C11_ReturnedIsCompleted ==
    [][\A u \in Units : \A v \in ReturnValues :
          body_return(u, v)
          => /\ unit'[u].ph = "result"
             /\ unit'[u].val = SerializeResult(v)]_vars

C14_RunningRecordsBounded ==
    Cardinality({t \in TaskIds : get_task_result(t).status = RUNNING}) <= MaxWorkers

\* C15: add_task never waits for a semaphore slot: with every slot held it can
\* still write the initial record and, later, store the handle and return, and
\* neither step touches the semaphore; the routine of the new task leaves its
\* wait for the semaphore only when a slot is free.
C15_AddTaskNeverWaits ==
    [][\A u \in Units :
          /\ sem = 0 /\ unit[u].apc = "idle" /\ (\A v \in Units : v < u => unit[v].apc # "idle")
             => ENABLED add_task(u, FirstId, FALSE)
          /\ sem = 0 /\ unit[u].apc = "tasks" => ENABLED add_task_tasks(u)
          /\ unit'[u].apc # unit[u].apc => sem' = sem
          /\ unit[u].ph = "new" /\ unit'[u].ph = "running" => sem > 0 /\ sem' = sem - 1
          /\ unit'[u].ph = "body" => unit[u].ph \in {"running", "body"}]_vars

C15_Witness ==
    /\ sem = 0
    /\ \E u, v \in Units :
          /\ unit[v].ph = "body"
          /\ unit[u].apc = "done"
          /\ unit[u].ph = "new"
          /\ get_task_result(unit[u].tid) # NoRec

\* C16: in every notification published, data holds the result when the status
\* is completed, the error when the status is failed, and is empty otherwise.
C16_NotificationShape ==
    out.pub # NoMsg =>
        /\ out.pub.task_id \in TaskIds
        /\ out.pub.status \in {RUNNING, COMPLETED, FAILED, CANCELLED}
        /\ out.pub.status = COMPLETED
           => out.pub.data # NoData /\ out.pub.data[1] = "result"
        /\ out.pub.status = FAILED
           => out.pub.data # NoData /\ out.pub.data[1] = "error"
        /\ out.pub.status \in {RUNNING, CANCELLED} => out.pub.data = NoData

\* C17: every status change written to a record after submission is followed
\* by a notification carrying that status, the write coming first: a routine
\* that has written completed, failed or cancelled, or a cancel_task call that
\* has written cancelled, goes on only by publishing the status it wrote, and
\* nothing is published before its write.
C17_WriteThenPublish ==
    [][/\ \A u \in Units :
             /\ unit[u].st = "pub" /\ PhaseStatus(unit[u].ph) # RUNNING
             /\ unit'[u].st # "pub" \/ unit'[u].ph # unit[u].ph
             => out'.pub = Message(unit[u].tid, PhaseStatus(unit[u].ph),
                                   PhaseData(unit[u].ph, unit[u].val))
       /\ canc.pc = "pub" /\ canc'.pc # "pub"
          => out'.pub = Message(canc.tid, CANCELLED, NoData)
       /\ out'.pub # NoMsg
          => \/ \E u \in Units : /\ unit[u].st = "pub"
                                 /\ unit[u].tid = out'.pub.task_id
                                 /\ PhaseStatus(unit[u].ph) = out'.pub.status
             \/ canc.pc = "pub" /\ canc.tid = out'.pub.task_id]_vars

\* C18: while failure_count >= circuit_breaker_threshold every attempt of
\* execute, the retry wrapper's included, raises the circuit-open error without
\* sending the Redis command, and leaves failure_count as it is.
C18_OpenBlocksAttempts ==
    [][\A c \in Callers :
          /\ cm.failure_count >= CircuitBreakerThreshold
          /\ cm.call[c].pc \in {"idle", "backoff"}
          /\ cm'.call[c] # cm.call[c]
          => /\ cm'.call[c].pc # "store"
             /\ cm'.call[c].did = CircuitOpenError
             /\ cm'.failure_count = cm.failure_count]_vars

C18_Witness ==
    /\ cm.failure_count >= CircuitBreakerThreshold
    /\ \E c \in Callers :
          /\ cm.call[c].pc = "backoff"
          /\ cm.call[c].tries = 2
          /\ cm.call[c].did = CircuitOpenError

\* C19: once circuit_breaker_timeout has elapsed since the last failure, an
\* attempt of execute sends its command to the store although the breaker
\* had opened.
C19_CooldownReopens ==
    [][\A c \in Callers :
          /\ cm.failure_count >= CircuitBreakerThreshold
          /\ now - cm.last_failure >= CircuitBreakerTimeout
          /\ cm.call[c].pc \in {"idle", "backoff"}
          /\ cm'.call[c] # cm.call[c]
          => cm'.call[c].pc = "store"]_vars

\* C20: whatever puts, gets, peeks, removes and clears were made on an LRU
\* cache, through one handle or through several handles on the same key, every
\* size a reader obtains is at most the capacity.
C20_SizeWithinCapacity ==
    lru.read.op = "size" => lru.read.n <= lru.capacity

\* C21: when a cache used by one caller holds capacity keys, a put of a key it
\* does not hold removes the first key of get_lru_order and no other, stores
\* the new key as the most recently used one, and leaves the other keys, their
\* values and their order as they were.
C21_EvictsLeastRecentlyUsed ==
    [][/\ lru'.read.op = "put"
       /\ hlen = lru.capacity
       /\ lru.hash[lru'.read.key] = Null
       => LET new == lru'.read.key
              old == Head(get_lru_order)
          IN /\ lru'.hash[old] = Null
             /\ lru'.hash[new] # Null
             /\ \A f \in Fields \ {old, new} : lru'.hash[f] = lru.hash[f]
             /\ get_lru_order' = Tail(get_lru_order) \o <<new>>]_vars

\* a put into a full cache of the largest capacity has just evicted a key
C21_Witness ==
    /\ lru.read.op = "put"
    /\ lru.read.n > lru.capacity
    /\ lru.capacity = Capacity
    /\ hlen = Capacity
    /\ \E f \in Fields : lru.hash[f] = Null

\* what C22 says of get and of put on a key the cache holds: the key becomes
\* the last of get_lru_order, get returns its value and changes no value, put
\* stores the new value, changes no other value and keeps the size
PromotesPresentKey ==
    /\ \A k \in Fields :
          get_call(k) /\ lru.hash[k] # Null
          => /\ get_lru_order'[Len(get_lru_order')] = k
             /\ lru'.read.val = lru.hash[k]
             /\ lru'.hash = lru.hash
    /\ \A k \in Fields, v \in Values :
          put_call(k, v) /\ lru.hash[k] # Null
          => /\ get_lru_order'[Len(get_lru_order')] = k
             /\ lru'.hash = [lru.hash EXCEPT ![k] = v]
             /\ hlen' = hlen

\* the operation before this step was a get or a put of a key the cache holds
\* after it, and this step is a put of a new key into the full cache
NewKeyAfterUseOf(k) ==
    /\ lru.read.op \in {"get", "put"}
    /\ lru.read.key = k
    /\ lru.hash[k] # Null
    /\ hlen = lru.capacity
    /\ lru'.read.op = "put"
    /\ lru.hash[lru'.read.key] = Null

\* C22 as stated: get(k) and put(k, v) on a present key make k the most
\* recently used key (put also updating the value, the size unchanged), and
\* the next put of a new key at full capacity leaves k in the cache.
C22_UsedKeySurvives ==
    [][/\ PromotesPresentKey
       /\ \A k \in Fields : NewKeyAfterUseOf(k) => lru'.hash[k] # Null]_vars

\* C22, amended: as stated, the survival of k holding for caches of capacity
\* two or more (in a cache of capacity one the key just used is also the least
\* recently used one, and the next new key evicts it).
C22_UsedKeySurvivesWithRoom ==
    [][/\ PromotesPresentKey
       /\ \A k \in Fields :
             NewKeyAfterUseOf(k) /\ lru.capacity >= 2 => lru'.hash[k] # Null]_vars

\* a get has just returned the value of a key of a full cache of the largest
\* capacity, and the key is the most recently used one
C22_Witness ==
    /\ lru.read.op = "get"
    /\ lru.read.val # Null
    /\ lru.capacity = Capacity
    /\ hlen = Capacity
    /\ Head(lru.order) = lru.read.key

\* C23: peek(k) returns the stored value of k, null when there is none, and
\* leaves the recency order, the stored values and the size as they were.
C23_PeekChangesNothing ==
    [][lru'.read.op = "peek"
       => /\ lru'.read.val = lru.hash[lru'.read.key]
          /\ get_lru_order' = get_lru_order
          /\ lru'.hash = lru.hash
          /\ hlen' = hlen
          /\ lru'.h = lru.h]_vars

\* a peek has just returned the value of the least recently used key of a
\* cache that holds several keys
C23_Witness ==
    /\ lru.read.op = "peek"
    /\ lru.read.val # Null
    /\ Len(lru.order) > 1
    /\ Head(get_lru_order) = lru.read.key

\* C24: pop returns the items in the order they were pushed and null when the
\* queue is empty; peek returns the item the next pop would return and leaves
\* the queue and its size as they were.
C24_FirstInFirstOut ==
    [][/\ queue'.ret.op = "pop"
          => queue'.ret.item = IF queue.removed < queue.pushed
                               THEN queue.removed + 1 ELSE NoItem
       /\ queue'.ret.op = "peek"
          => /\ queue'.ret.item = lpop(queue.list).popped
             /\ queue'.list = queue.list
             /\ Len(queue'.list) = Len(queue.list)]_vars

\* the last item pushed has just been popped, after the items pushed before it
C24_Witness ==
    /\ queue.ret.op = "pop"
    /\ queue.ret.item = MaxPushes
    /\ queue.removed = MaxPushes

\* C25: every operation of the dictionary that a coroutine calls returns, so
\* the lock is released and the coroutines waiting for it go on.
C25_EveryCallReturns ==
    \A c \in DictCallers : (dict.call[c].pc # "idle") ~> (dict.call[c].pc = "idle")

\* C26: when a command of the store raises during add_task, get_task_result,
\* cancel_task or cleanup_old_tasks, the operation raises to its caller; it
\* does not return a normal result.
C26_StoreErrorsSurface ==
    out.fault \in CallerOperations => out.raised # Null

\* C27: the free slots of the semaphore are max_workers less the routines
\* that are inside it, however the other routines ended (by return, by an
\* exception of the body, by cancellation or by a store error); so when no
\* routine is inside it all max_workers slots are free.
C27_SlotsReleased ==
    /\ sem = MaxWorkers - Cardinality(Holding)
    /\ Holding = {} => sem = MaxWorkers

\* a routine has ended by a store error raised in a handler, another routine
\* has ended after a cancellation, and every slot is free
C27_Witness ==
    /\ \E u \in Units : unit[u].ph = "crashed"
    /\ \E u \in Units : unit[u].ph = "done" /\ rec[unit[u].tid].status = CANCELLED
    /\ Holding = {}
    /\ sem = MaxWorkers

\* C30: when a command of the write of the running status raises, the routine
\* goes on to call the task's callable.
C30_BodyRunsAfterFailedWrite ==
    [][\A u \in Units :
          /\ unit[u].ph = "running"
          /\ out'.fault = "_update_task_data"
          /\ unit'[u] # unit[u]
          => unit'[u].ph = "body"]_vars

\* the broadcasts of the monitor that report a terminal outcome
TerminalTypes == {"task_completed", "task_failed", "task_cancelled"}
Outcomes == {i \in DOMAIN mon.sent : mon.sent[i].type \in TerminalTypes}
TimedOut == \E i \in DOMAIN mon.sent : mon.sent[i].type = "task_timeout"

MidUpdate(task_id) ==
    {u \in Units : unit[u].tid = task_id /\ unit[u].st = "set"}
       \cup (IF canc.pc = "set" /\ canc.tid = task_id THEN {0} ELSE {})

\* C29: the updates of a record after its submission are written by one execution
\* routine and are totally ordered: at no moment have two writers read the
\* record without having written it back, every step that changes a stored
\* record is the write of an execution routine of that task, and a task id has
\* one execution routine.
C29_SingleWriter ==
    /\ [](\A t \in TaskIds : Cardinality(MidUpdate(t)) <= 1 /\ SubmittedOnce(t))
    /\ [][\A t \in TaskIds :
             rec[t] # NoRec /\ rec'[t] # NoRec /\ rec'[t] # rec[t]
             => \E u \in Units : /\ unit[u].tid = t
                                 /\ unit[u].st = "set"
                                 /\ unit'[u].st = "pub"]_vars

\* C31: a cancel_task call that has read a running record and finds no handle
\* for the id in this processor's handle map returns false, and its steps write
\* no record and publish nothing.
C31_NoHandleNoOp ==
    [][canc.pc = "handle" /\ tasks[canc.tid] = 0 /\ canc' # canc
       => /\ out'.cancel_id = canc.tid /\ out'.cancel_ret = "false"
          /\ rec' = rec
          /\ out'.pub = NoMsg
          /\ unit' = unit]_vars

C31_Witness ==
    /\ out.cancel_ret = "false"
    /\ get_task_result(out.cancel_id).status = RUNNING
    /\ tasks[out.cancel_id] = 0

\* C32: failure_count changes only in two ways: a call of execute that ends
\* with its retries exhausted adds one to it, once for the call and not once
\* for each attempt, and a command that succeeds sets it to zero, as every
\* successful command does.
C32_CountedPerCall ==
    [][/\ cm'.failure_count # cm.failure_count
          => \/ /\ cm'.failure_count = 0
                /\ \E c \in Callers : cm.call[c].pc = "store" /\ cm'.call[c].did = "ok"
             \/ /\ cm'.failure_count = cm.failure_count + 1
                /\ \E c \in Callers : /\ cm.call[c].pc = "store"
                                      /\ cm.call[c].tries = MaxTries
                                      /\ cm'.call[c].pc = "idle"
                                      /\ cm'.call[c].did \in Retried
       /\ \A c \in Callers :
             cm.call[c].pc = "store" /\ cm'.call[c].did = "ok" => cm'.failure_count = 0]_vars

\* C33: a call of execute sends its command to the store at most
\* retry_max_attempts times, whatever retry_max_attempts the connection manager
\* was constructed with.
C33_AttemptsWithinConfigured ==
    \A c \in Callers :
        cm.call[c].pc = "store" => cm.call[c].tries <= cm.retry_max_attempts

\* C34: when the command of an attempt ends with an error that is not a
\* connection-level error, the call ends at once with that error: no further
\* attempt follows and failure_count stays as it was.
C34_LogicalErrorsNotRetried ==
    [][\A c \in Callers, reply \in LogicalErrors :
          command_ends(c, reply)
          => /\ cm'.call[c].pc = "idle"
             /\ cm'.call[c].did = reply
             /\ cm'.failure_count = cm.failure_count]_vars

\* the fields that have a value in the hash, and those on the order list
HashKeys == {f \in Fields : lru.hash[f] # Null}
OrderKeys == {lru.order[n] : n \in DOMAIN lru.order}

\* C35: in every state between two steps of the cache's operations the fields of
\* the value hash are the fields of the order list, and no field is on the
\* order list twice.
C35_HashMatchesOrder ==
    /\ HashKeys = OrderKeys
    /\ Cardinality(OrderKeys) = Len(lru.order)

\* C36: when cancel_task cancels a routine that is still waiting for a slot of
\* the semaphore, the routine ends there with the free slots unchanged; a
\* routine that has ended never starts its body (the body starts only from the
\* write of the running status); and when the call returns true the record of a
\* task submitted once is cancelled, unless cleanup_old_tasks has deleted it.
C36_CancelledWhileWaiting ==
    [][/\ /\ canc.pc = "handle" /\ canc'.pc = "await"
          /\ unit[canc'.unit].ph = "new"
          => /\ unit'[canc'.unit].ph = "done"
             /\ ~unit'[canc'.unit].thread
             /\ sem' = sem
       /\ \A u \in Units :
             /\ unit[u].ph = "done"
                => unit'[u].ph = "done" /\ (unit'[u].thread => unit[u].thread)
             /\ unit'[u].ph = "body" => unit[u].ph \in {"running", "body"}
       /\ out'.cancel_ret = "true" /\ SubmittedOnce(canc.tid)
          => \/ rec'[canc.tid] = NoRec
             \/ rec'[canc.tid].status = CANCELLED]_vars

\* cancel_task has just cancelled a routine that was waiting for the only slot,
\* which another task's body holds
C36_Witness ==
    /\ canc.pc = "await"
    /\ unit[canc.unit].ph = "done"
    /\ get_task_result(canc.tid).status = RUNNING
    /\ sem = 0
    /\ \E v \in Units : unit[v].ph = "body" /\ unit[v].tid # canc.tid

\* C37: only add_task creates a record: a record that is absent, as after its
\* deletion by cleanup_old_tasks, stays absent through every status write of an
\* execution routine and of cancel_task, and those writes then publish nothing.
C37_DeletedStaysDeleted ==
    [][\A t \in TaskIds :
          get_task_result(t) = NoRec /\ get_task_result(t)' # NoRec
          => \E u \in Units : /\ unit[u].apc = "idle"
                              /\ unit'[u].apc = "tasks"
                              /\ unit'[u].tid = t]_vars

\* add_task was called at most once with this id on the pending-policy processor
LegacySubmittedOnce(task_id) ==
    Cardinality({u \in Units : legacy.unit[u].tid = task_id}) <= 1

\* C38: in the pending-policy processor a record that cancel_task has marked
\* cancelled stays cancelled for as long as it is stored: no later write of
\* the execution routine of the task changes its status.
C38_LegacyCancelledStays ==
    [][\A t \in TaskIds :
          /\ legacy.rec[t].status = CANCELLED
          /\ legacy'.rec[t] # NoRec
          /\ LegacySubmittedOnce(t)'
          => legacy'.rec[t].status = CANCELLED]_vars

\* C39: in the websocket registry, after any sequence of connect and
\* disconnect calls (a second disconnect of the same websocket included), a
\* user is in active_users and has connection metadata if and only if at least
\* one websocket is still tracked for that user.
C39_ActiveIffTracked ==
    \A u \in Users :
        (u \in registry.active_users /\ registry.connection_metadata[u] > 0)
        <=> registry.connections[u] # {}

\* the asyncio task of unit u is done (returned, raised or was cancelled)
Finished(u) == unit[u].ph \in {"done", "crashed"}

\* no reference to the task of unit u is left in _background_tasks, _tasks
\* and _task_to_id
HandleRemoved(u) ==
    /\ StoredWrapper(u) \notin refs.background_tasks
    /\ refs.task_to_id[StoredWrapper(u)] = Null
    /\ \A t \in TaskIds : tasks[t] # u

\* C40: after a task's execution unit finishes (normally, by exception or by
\* cancellation), its done-callback eventually removes the task's handle from
\* the background_tasks set and from the tasks and task_to_id maps.
C40_HandleEventuallyRemoved ==
    \A u \in Units : Finished(u) ~> HandleRemoved(u)

====
